---- MODULE Spec2Model ----
(***************************************************************************)
(* Event-Echo-Lite, events service (backend/events_service/routes.py).      *)
(*                                                                         *)
(* The relational store is the state: the rows of the events, rsvps and    *)
(* event_reviews tables, the serial that numbers the events and the clock. *)
(* Each route handler is a pure operator from   *)
(* (store, credential, request body) to (response code, store); an action  *)
(* applies one handler.  Handlers that run two store statements in         *)
(* separate transactions are also given as two steps of a worker, so that  *)
(* requests can interleave.                                                *)
(*                                                                         *)
(* Abstractions.  A datetime is an instant 1..MaxTime; a title is its      *)
(* length; an address is an index.  NULL stands for SQL NULL / Python None *)
(* / JSON null and, for request strings, the empty string (all are falsy   *)
(* in the handlers' `not x` tests).  ABSENT marks a key that is not in the *)
(* request body, BAD a string that datetime.fromisoformat rejects.  All    *)
(* datetimes are taken to be comparable (the same UTC offset convention).  *)
(* A statement fails only where a constraint of the schema refuses it:     *)
(* rsvps and event_reviews are unique on (user_id, event_id) and their     *)
(* event_id is a foreign key to events with ON DELETE CASCADE.             *)
(***************************************************************************)
EXTENDS Integers, Sequences, FiniteSets, TLC

\* ------------------------------------------------------------- bounds
MaxEvents == 2
MaxTime == 3
MaxVenue == 2
MaxWorkers == 2
MaxClock == 4
MaxTasks == 3

\* ------------------------------------------------- program constants
TITLE_MAX_LENGTH == 200
VALID_VISIBILITY == {"public", "private"}
VALID_LOCATION_TYPES == {"venue", "custom"}
VALID_STATUSES == {"upcoming", "cancelled", "completed"}

NULL == 0
ABSENT == -1
BAD == -2

Times == 1..MaxTime
Venues == 1..MaxVenue
Addresses == {1}
EventIds == 1..MaxEvents

\* A request credential: a bearer token carrying (sub, role), or none.
NoCredential == [valid |-> FALSE, sub |-> NULL, role |-> "none"]
Attendee == [valid |-> TRUE, sub |-> 1, role |-> "attendee"]
Organizer == [valid |-> TRUE, sub |-> 2, role |-> "organizer"]
Admin == [valid |-> TRUE, sub |-> 3, role |-> "admin"]
Credentials == {NoCredential, Attendee, Organizer, Admin}

\* ------------------------------------------------------ request bodies
\* A JSON body is a record over the keys the handlers read; a key that is
\* not in the body holds ABSENT (integer keys) or "absent" (enum keys).
IntKeys == {"title", "start_time", "end_time", "venue_id", "custom_location_address",
            "rating", "review_text", "organizer_id", "created_by"}
StrKeys == {"location_type", "visibility", "status"}

Has(data, key) == IF key \in StrKeys THEN data[key] # "absent" ELSE data[key] # ABSENT

\* data.get(key): None for a missing key.
Get(data, key) == IF Has(data, key) THEN data[key] ELSE IF key \in StrKeys THEN "null" ELSE NULL

\* data.get(key, default)
GetOr(data, key, default) == IF Has(data, key) THEN data[key] ELSE default

EmptyBody ==
    [title |-> ABSENT, start_time |-> ABSENT, end_time |-> ABSENT,
     venue_id |-> ABSENT, custom_location_address |-> ABSENT,
     rating |-> ABSENT, review_text |-> ABSENT,
     organizer_id |-> ABSENT, created_by |-> ABSENT,
     location_type |-> "absent", visibility |-> "absent", status |-> "absent"]

NumKeys(data) == Cardinality({k \in IntKeys \cup StrKeys : Has(data, k)})

\* ------------------------------------------------------------- helpers
\* parse_dt: None for a falsy or unparseable value, the instant otherwise.
parse_dt(val) == IF val \in Times THEN val ELSE NULL

\* The role column of the users table, by user_id.
VARIABLE users

\* Faulty variant of verify_token_from_request: the role is read from the
\* users table, not from the token.
verify_token_from_request_stored(cred) ==
    IF cred.valid
    THEN [user_id |-> cred.sub, role |-> users[cred.sub], code |-> 0]
    ELSE [user_id |-> NULL, role |-> "none", code |-> 401]

\* verify_token_from_request(), as the events handlers call it.
verify_token_from_request(cred) ==
    IF cred.valid
    THEN [user_id |-> cred.sub, role |-> cred.role, code |-> 0]
    ELSE [user_id |-> NULL, role |-> "none", code |-> 401]

\* create_token: the token that carries (sub, role), signed with the secret.
create_token(user_id, role) == [signed |-> TRUE, expired |-> FALSE, sub |-> user_id, role |-> role]

\* An Authorization header: none, one that does not start with "Bearer ", or
\* "Bearer " and a token.
MissingHeader ==
    [kind |-> "missing", signed |-> FALSE, expired |-> FALSE, sub |-> NULL, role |-> "none"]
BasicHeader ==
    [kind |-> "basic", signed |-> FALSE, expired |-> FALSE, sub |-> 3, role |-> "admin"]
Bearer(token) ==
    [kind |-> "bearer", signed |-> token.signed, expired |-> token.expired,
     sub |-> token.sub, role |-> token.role]

\* Faulty variant of Decode: the claims of any bearer token are believed.
DecodeUnverified(header) ==
    [valid |-> header.kind = "bearer", sub |-> header.sub, role |-> header.role]

\* The prefix test and jwt.decode of verify_token_from_request: the claims of
\* a bearer token are valid when its signature verifies and it has not expired.
Decode(header) ==
    [valid |-> header.kind = "bearer" /\ header.signed /\ ~header.expired,
     sub |-> header.sub, role |-> header.role]

\* verify_token_from_request(required_roles): no roles required when empty.
verify_token_from_request_roles(cred, required_roles) ==
    IF ~cred.valid
    THEN [user_id |-> NULL, role |-> "none", code |-> 401]
    ELSE IF required_roles # {} /\ cred.role \notin required_roles
    THEN [user_id |-> NULL, role |-> "none", code |-> 403]
    ELSE [user_id |-> cred.sub, role |-> cred.role, code |-> 0]

\* verify_token: the subject of a valid token, None otherwise.
verify_token(cred) == IF cred.valid THEN cred.sub ELSE NULL

Min(a, b) == IF a <= b THEN a ELSE b
Max(a, b) == IF a >= b THEN a ELSE b

\* Faulty variant of Overlaps: closed intervals, so that back-to-back windows
\* overlap.
OverlapsClosed(s1, e1, s2, e2) == s1 <= e2 /\ s2 <= e1

\* PostgreSQL (s1, e1) OVERLAPS (s2, e2): each pair is ordered first; a pair
\* denotes start <= t < end, or the single instant when start = end.
Overlaps(s1, e1, s2, e2) ==
    LET a1 == Min(s1, e1)
        b1 == Max(s1, e1)
        a2 == Min(s2, e2)
        b2 == Max(s2, e2)
    IN  IF a1 > a2 THEN b2 > a1
        ELSE IF a1 < a2 THEN b1 > a2
        ELSE TRUE

\* The conflict query of create_event: the rows it selects.
ConflictRows(evs, venue_id, start_dt, end_dt) ==
    {e \in evs : /\ e.venue_id = venue_id
                 /\ e.status = "upcoming"
                 /\ Overlaps(e.start_time, e.end_time, start_dt, end_dt)}

\* Faulty variant of Privileged: the role test lets an attendee through.
PrivilegedAnyRole(role) == role \in {"organizer", "admin", "attendee"}

Privileged(role) == role \in {"organizer", "admin"}

\* Validation and permission part of create_event: 0 when the request may go
\* on to the conflict check, the response code otherwise.
CreateValidate(auth, data) ==
    LET title == Get(data, "title")
        start_str == Get(data, "start_time")
        end_str == Get(data, "end_time")
        start_dt == parse_dt(start_str)
        end_dt == parse_dt(end_str)
        location_type == GetOr(data, "location_type", "custom")
        venue_id == Get(data, "venue_id")
        custom_location == Get(data, "custom_location_address")
        visibility == GetOr(data, "visibility", "public")
        vis == IF visibility \notin VALID_VISIBILITY THEN "public" ELSE visibility
    IN  IF auth.code # 0 THEN auth.code
        ELSE IF title = NULL \/ start_str = NULL \/ end_str = NULL THEN 400
        ELSE IF title > TITLE_MAX_LENGTH THEN 400
        ELSE IF start_dt = NULL \/ end_dt = NULL THEN 400
        ELSE IF start_dt >= end_dt THEN 400
        ELSE IF location_type \notin VALID_LOCATION_TYPES THEN 400
        ELSE IF location_type = "venue" /\ venue_id = NULL THEN 400
        ELSE IF location_type = "custom" /\ custom_location = NULL THEN 400
        ELSE IF vis = "public" /\ ~Privileged(auth.role) THEN 403
        ELSE 0

\* The conflict check of create_event (its own transaction).
CreateConflict(evs, data) ==
    /\ GetOr(data, "location_type", "custom") = "venue"
    /\ ConflictRows(evs, Get(data, "venue_id"),
                    parse_dt(Get(data, "start_time")), parse_dt(Get(data, "end_time"))) # {}

\* The row create_event inserts.
NewRow(event_id, auth, data) ==
    LET location_type == GetOr(data, "location_type", "custom")
        visibility == GetOr(data, "visibility", "public")
    IN  [event_id |-> event_id,
         title |-> Get(data, "title"),
         start_time |-> parse_dt(Get(data, "start_time")),
         end_time |-> parse_dt(Get(data, "end_time")),
         location_type |-> location_type,
         venue_id |-> IF location_type = "venue" THEN Get(data, "venue_id") ELSE NULL,
         custom_location_address |->
             IF location_type = "custom" THEN Get(data, "custom_location_address") ELSE NULL,
         visibility |-> IF visibility \notin VALID_VISIBILITY THEN "public" ELSE visibility,
         organizer_id |-> auth.user_id,
         created_by |-> auth.user_id,
         status |-> "upcoming"]

\* create_event up to its INSERT: 0 when the row is to be inserted, the
\* response code otherwise.
CreateCheckCode(evs, cred, data) ==
    LET v == CreateValidate(verify_token_from_request(cred), data)
    IN  IF v # 0 THEN v
        ELSE IF CreateConflict(evs, data) THEN 409
        ELSE 0

\* create_event run alone: response code and the store it leaves.
create_event(evs, nid, cred, data) ==
    LET c == CreateCheckCode(evs, cred, data)
    IN  IF c # 0 THEN [code |-> c, events |-> evs, nextId |-> nid]
        ELSE [code |-> 201,
              events |-> evs \cup {NewRow(nid, verify_token_from_request(cred), data)},
              nextId |-> nid + 1]

\* ------------------------------------------------------- update_event
\* The row SELECTed by event_id: the set holding it, empty when there is none.
RowsById(evs, event_id) == {e \in evs : e.event_id = event_id}

\* Faulty variant of FinalTime: only the supplied datetime is looked at, never
\* the stored one.
FinalTimeSupplied(dt, stored) == dt

\* final_start / final_end: the supplied datetime, else the stored one.
FinalTime(dt, stored) == IF dt # NULL THEN dt ELSE stored

\* The checks of update_event against the row `ev` it has read: 0 when the
\* UPDATE statement is to be issued, the response code otherwise.
UpdateValidate(auth, data, ev) ==
    LET start_dt == IF Has(data, "start_time") THEN parse_dt(data.start_time) ELSE NULL
        end_dt == IF Has(data, "end_time") THEN parse_dt(data.end_time) ELSE NULL
        final_start == FinalTime(start_dt, ev.start_time)
        final_end == FinalTime(end_dt, ev.end_time)
        loc0 == GetOr(data, "location_type", ev.location_type)
        loc1 == IF Has(data, "venue_id") /\ ~Has(data, "location_type") THEN "venue" ELSE loc0
        final_loc_type ==
            IF Has(data, "custom_location_address") /\ ~Has(data, "location_type")
            THEN "custom" ELSE loc1
        final_venue_id == GetOr(data, "venue_id", ev.venue_id)
        final_custom_loc == GetOr(data, "custom_location_address", ev.custom_location_address)
    IN  IF ~Privileged(auth.role) /\ ev.created_by # auth.user_id THEN 403
        ELSE IF Get(data, "visibility") = "public" /\ ~Privileged(auth.role) THEN 403
        ELSE IF Has(data, "title") /\ data.title = NULL THEN 400
        ELSE IF Has(data, "title") /\ data.title > TITLE_MAX_LENGTH THEN 400
        ELSE IF Has(data, "start_time") /\ start_dt = NULL THEN 400
        ELSE IF Has(data, "end_time") /\ end_dt = NULL THEN 400
        ELSE IF final_start >= final_end THEN 400
        ELSE IF Has(data, "visibility") /\ data.visibility \notin VALID_VISIBILITY THEN 400
        ELSE IF Has(data, "status") /\ data.status \notin VALID_STATUSES THEN 400
        ELSE IF Has(data, "location_type") /\ data.location_type \notin VALID_LOCATION_TYPES
             THEN 400
        ELSE IF final_loc_type = "venue" /\ final_venue_id = NULL THEN 400
        ELSE IF final_loc_type = "custom" /\ final_custom_loc = NULL THEN 400
        ELSE 0

\* Faulty variant of SetColumn: a status the body does not name is reset.
SetColumnReset(e, data, key) ==
    IF ~Has(data, key) THEN (IF key = "status" THEN "upcoming" ELSE e[key])
    ELSE IF key \in {"start_time", "end_time"} THEN parse_dt(data[key])
    ELSE data[key]

\* The value the UPDATE statement gives column `key` of row `e`: the body's
\* value for a key of the body, the stored value otherwise.
SetColumn(e, data, key) ==
    IF ~Has(data, key) THEN e[key]
    ELSE IF key \in {"start_time", "end_time"} THEN parse_dt(data[key])
    ELSE data[key]

\* The location_type the UPDATE statement leaves: the body's, or the one
\* inferred from venue_id / custom_location_address when the body has none.
SetLocationType(e, data) ==
    IF Has(data, "location_type") THEN data.location_type
    ELSE IF Has(data, "venue_id") THEN "venue"
    ELSE IF Has(data, "custom_location_address") THEN "custom"
    ELSE e.location_type

\* Faulty variant of UpdatedRow: organizer_id and created_by are written too.
UpdatedRowOwner(e, data) ==
    [event_id |-> e.event_id,
     title |-> SetColumn(e, data, "title"),
     start_time |-> SetColumn(e, data, "start_time"),
     end_time |-> SetColumn(e, data, "end_time"),
     location_type |-> SetLocationType(e, data),
     venue_id |-> SetColumn(e, data, "venue_id"),
     custom_location_address |-> SetColumn(e, data, "custom_location_address"),
     visibility |-> SetColumn(e, data, "visibility"),
     organizer_id |-> SetColumn(e, data, "organizer_id"),
     created_by |-> SetColumn(e, data, "created_by"),
     status |-> SetColumn(e, data, "status")]

\* UPDATE events SET <fields> WHERE event_id = %s, applied to one row.
UpdatedRow(e, data) ==
    [event_id |-> e.event_id,
     title |-> SetColumn(e, data, "title"),
     start_time |-> SetColumn(e, data, "start_time"),
     end_time |-> SetColumn(e, data, "end_time"),
     location_type |-> SetLocationType(e, data),
     venue_id |-> SetColumn(e, data, "venue_id"),
     custom_location_address |-> SetColumn(e, data, "custom_location_address"),
     visibility |-> SetColumn(e, data, "visibility"),
     organizer_id |-> e.organizer_id,
     created_by |-> e.created_by,
     status |-> SetColumn(e, data, "status")]

\* The store after the UPDATE statement (no row matches a deleted event).
ApplyUpdate(evs, event_id, data) ==
    {IF e.event_id = event_id THEN UpdatedRow(e, data) ELSE e : e \in evs}

\* The columns update_event may write from the body.
allowed_fields ==
    {"title", "start_time", "end_time", "location_type", "venue_id",
     "custom_location_address", "visibility", "status"}

\* The columns of the SET list update_event builds: the allowed keys of the
\* body, the inferred location_type, and updated_at, which no earlier entry
\* of the list equals.
Fields(data) ==
    LET named == {k \in allowed_fields : Has(data, k)}
        inferred == IF (Has(data, "venue_id") \/ Has(data, "custom_location_address"))
                       /\ ~Has(data, "location_type")
                    THEN {"location_type"} ELSE {}
    IN  named \cup inferred \cup {"updated_at"}

\* update_event up to its UPDATE statement: 0 when the statement is to be
\* issued, the response code otherwise.
UpdateReadCode(evs, cred, event_id, data) ==
    LET auth == verify_token_from_request(cred)
        rows == RowsById(evs, event_id)
    IN  IF auth.code # 0 THEN auth.code
        ELSE IF NumKeys(data) = 0 THEN 400
        ELSE IF rows = {} THEN 404
        ELSE LET c == UpdateValidate(auth, data, CHOOSE e \in rows : TRUE)
             IN  IF c # 0 THEN c
                 ELSE IF Fields(data) = {} THEN 400
                 ELSE 0

\* update_event run alone: response code and the store it leaves.
update_event(evs, cred, event_id, data) ==
    LET c == UpdateReadCode(evs, cred, event_id, data)
    IN  IF c # 0 THEN [code |-> c, events |-> evs]
        ELSE [code |-> 200, events |-> ApplyUpdate(evs, event_id, data)]

\* ------------------------------------------------------- delete_event
\* Faulty variant of delete_event: the DELETE runs before the permission test.
delete_event_unchecked(evs, cred, event_id) ==
    LET auth == verify_token_from_request(cred)
        rows == RowsById(evs, event_id)
    IN  IF auth.code # 0 THEN [code |-> auth.code, events |-> evs]
        ELSE IF rows = {} THEN [code |-> 404, events |-> evs]
        ELSE LET ev == CHOOSE e \in rows : TRUE
             IN  IF ~Privileged(auth.role) /\ ev.created_by # auth.user_id
                 THEN [code |-> 403, events |-> evs \ rows]
                 ELSE [code |-> 200, events |-> evs \ rows]

delete_event(evs, cred, event_id) ==
    LET auth == verify_token_from_request(cred)
        rows == RowsById(evs, event_id)
    IN  IF auth.code # 0 THEN [code |-> auth.code, events |-> evs]
        ELSE IF rows = {} THEN [code |-> 404, events |-> evs]
        ELSE LET ev == CHOOSE e \in rows : TRUE
             IN  IF ~Privileged(auth.role) /\ ev.created_by # auth.user_id
                 THEN [code |-> 403, events |-> evs]
                 ELSE [code |-> 200, events |-> evs \ rows]

\* Faulty variant of Cascade: the child rows outlive the event.
CascadeKeep(rows, event_id) == rows

\* ON DELETE CASCADE of rsvps.event_id and event_reviews.event_id: the rows of
\* a child table that remain once the event row is deleted.
Cascade(rows, event_id) == {r \in rows : r.event_id # event_id}

\* --------------------------------------------------------- list_events
\* Faulty variant of ListVisible: an identified caller is shown every row.
ListVisibleAll(e, auth_user_id) ==
    IF auth_user_id # NULL THEN TRUE ELSE e.visibility = "public"

\* The WHERE clause of list_events for the caller resolved from the header.
ListVisible(e, auth_user_id) ==
    IF auth_user_id # NULL
    THEN e.visibility = "public" \/ e.organizer_id = auth_user_id \/ e.created_by = auth_user_id
    ELSE e.visibility = "public"

\* ORDER BY e.start_time: the orders the store may return the rows in.
OrderedByStart(rows) ==
    {sq \in [1..Cardinality(rows) -> rows] :
        /\ \A i, j \in DOMAIN sq : i # j => sq[i] # sq[j]
        /\ \A i, j \in DOMAIN sq : i < j => sq[i].start_time <= sq[j].start_time}

\* The result sets list_events may return (rows given by their event_id).
list_events(evs, cred) ==
    LET auth_user_id == verify_token(cred)
        rows == {e \in evs : ListVisible(e, auth_user_id)}
    IN  {[i \in DOMAIN sq |-> sq[i].event_id] : sq \in OrderedByStart(rows)}

\* r.rsvp_status AS my_rsvp_status of list_events: LEFT JOIN rsvps r ON
\* e.event_id = r.event_id AND r.user_id = <caller>; null when no row joins.
my_rsvp_status(rs, event_id, auth_user_id) ==
    LET joined == {r \in rs : r.event_id = event_id /\ r.user_id = auth_user_id}
    IN  IF joined = {} THEN {"null"} ELSE {r.rsvp_status : r \in joined}

\* Faulty variant of attendee_count: every RSVP row is counted.
attendee_count_any(rs, event_id) == Cardinality({r \in rs : r.event_id = event_id})

\* attendee_count of list_events and get_event: the going rows of the event.
attendee_count(rs, event_id) ==
    Cardinality({r \in rs : r.event_id = event_id /\ r.rsvp_status = "going"})

\* SUM(rating) over a set of review rows.
RECURSIVE SumRatings(_)
SumRatings(rows) ==
    IF rows = {} THEN 0
    ELSE LET r == CHOOSE x \in rows : TRUE
         IN  r.rating + SumRatings(rows \ {r})

\* review_count of list_events and get_event.
review_count(rv, event_id) == Cardinality({r \in rv : r.event_id = event_id})

\* avg_rating of list_events and get_event: AVG(rating) as the fraction
\* <<sum, count>>, null over no rows.
avg_rating(rv, event_id) ==
    LET rows == {r \in rv : r.event_id = event_id}
    IN  IF rows = {} THEN NULL ELSE <<SumRatings(rows), Cardinality(rows)>>

\* The three aggregate columns of an event read.
Aggregates(rs, rv, event_id) ==
    [attendee_count |-> attendee_count(rs, event_id),
     avg_rating |-> avg_rating(rv, event_id),
     review_count |-> review_count(rv, event_id)]

\* ----------------------------------------------------------- get_event
\* Faulty variant of IsOwner: every identified caller passes for the owner.
IsOwnerAnyone(e, auth_user_id) == auth_user_id # NULL

\* is_owner of the privacy check of get_event.
IsOwner(e, auth_user_id) ==
    /\ auth_user_id # NULL
    /\ (e.organizer_id = auth_user_id \/ e.created_by = auth_user_id)

\* GET /events/<event_id>: the response code.
get_event(evs, cred, event_id) ==
    LET auth_user_id == verify_token(cred)
        rows == RowsById(evs, event_id)
    IN  IF rows = {} THEN 404
        ELSE LET event == CHOOSE e \in rows : TRUE
                 is_public == event.visibility = "public"
             IN  IF ~is_public /\ ~IsOwner(event, auth_user_id) THEN 403 ELSE 200

\* ---------------------------------------------------------------- rsvp
VALID_RSVP == {"going", "maybe", "canceled"}

\* Faulty variant of Falsy: an empty string counts as a status.
FalsyNoneOnly(status) == status = "null"

\* `if status:` is false for a missing key, a null and an empty string.
Falsy(status) == status \in {"null", ""}

\* Faulty variant of References: no foreign key, any event_id is accepted.
ReferencesAny(evs, event_id) == TRUE

\* The foreign key of rsvps.event_id and event_reviews.event_id: an insert is
\* accepted only for an event_id that has a row in events.
References(evs, event_id) == RowsById(evs, event_id) # {}

\* The rows of a child table other than the one of (user_id, event_id).
Others(rows, user_id, event_id) ==
    {r \in rows : ~(r.user_id = user_id /\ r.event_id = event_id)}

\* rsvp before its statement: 0 when the statement is to be run, the response
\* code otherwise.
RsvpCheckCode(cred, data) ==
    LET auth == verify_token_from_request(cred)
        status == Get(data, "status")
    IN  IF auth.code # 0 THEN auth.code
        ELSE IF ~Falsy(status) /\ status \notin VALID_RSVP THEN 400
        ELSE 0

\* Faulty variant of RsvpStatement: a plain INSERT, a row per call.
RsvpStatementInsertOnly(rs, evs, user_id, event_id, status) ==
    IF ~Falsy(status)
    THEN [code |-> 200, status |-> status,
          rsvps |-> rs \cup
              {[user_id |-> user_id, event_id |-> event_id, rsvp_status |-> status]}]
    ELSE [code |-> 200, status |-> "cleared", rsvps |-> Others(rs, user_id, event_id)]

\* The statement of rsvp and its commit: INSERT ... ON CONFLICT (user_id,
\* event_id) DO UPDATE for a status, DELETE for none.
RsvpStatement(rs, evs, user_id, event_id, status) ==
    IF ~Falsy(status)
    THEN IF ~References(evs, event_id)
         THEN [code |-> 500, rsvps |-> rs, status |-> "null"]
         ELSE [code |-> 200, status |-> status,
               rsvps |-> Others(rs, user_id, event_id) \cup
                   {[user_id |-> user_id, event_id |-> event_id, rsvp_status |-> status]}]
    ELSE [code |-> 200, status |-> "cleared", rsvps |-> Others(rs, user_id, event_id)]

\* rsvp run alone: response code, returned status and the table it leaves.
rsvp(rs, evs, cred, event_id, data) ==
    LET c == RsvpCheckCode(cred, data)
    IN  IF c # 0 THEN [code |-> c, rsvps |-> rs, status |-> "null"]
        ELSE RsvpStatement(rs, evs, cred.sub, event_id, Get(data, "status"))

\* --------------------------------------------------- post_event_review
\* post_event_review before its statement: 0 when the statement is to be run.
ReviewCheckCode(cred, data) ==
    LET auth == verify_token_from_request(cred)
        rating == Get(data, "rating")
    IN  IF auth.code # 0 THEN auth.code
        ELSE IF rating = NULL \/ rating = BAD \/ ~(1 <= rating /\ rating <= 5) THEN 400
        ELSE 0

\* INSERT INTO event_reviews ... ON CONFLICT (user_id, event_id) DO UPDATE,
\* run at time ts.
ReviewStatement(rv, evs, user_id, event_id, data, ts) ==
    IF ~References(evs, event_id)
    THEN [code |-> 500, reviews |-> rv]
    ELSE [code |-> 201,
          reviews |-> Others(rv, user_id, event_id) \cup
              {[user_id |-> user_id, event_id |-> event_id, rating |-> data.rating,
                review_text |-> Get(data, "review_text"), created_at |-> ts]}]

\* post_event_review run alone at time ts.
post_event_review(rv, evs, cred, event_id, data, ts) ==
    LET c == ReviewCheckCode(cred, data)
    IN  IF c # 0 THEN [code |-> c, reviews |-> rv]
        ELSE ReviewStatement(rv, evs, cred.sub, event_id, data, ts)

\* --------------------------------------------------- get_event_reviews
\* Faulty variant of NewestFirst: ORDER BY created_at ascending.
OldestFirst(rows) ==
    {sq \in [1..Cardinality(rows) -> rows] :
        /\ \A i, j \in DOMAIN sq : i # j => sq[i] # sq[j]
        /\ \A i, j \in DOMAIN sq : i < j => sq[i].created_at <= sq[j].created_at}

\* ORDER BY r.created_at DESC: the orders the store may return the rows in.
NewestFirst(rows) ==
    {sq \in [1..Cardinality(rows) -> rows] :
        /\ \A i, j \in DOMAIN sq : i # j => sq[i] # sq[j]
        /\ \A i, j \in DOMAIN sq : i < j => sq[i].created_at >= sq[j].created_at}

\* GET /events/<event_id>/reviews: the result sets it may return.
get_event_reviews(rv, event_id) == NewestFirst({r \in rv : r.event_id = event_id})

\* ---------------------------------------------------------------- state
VARIABLES
    events,     \* the rows of the events table
    nextId,     \* the next value of the event_id serial
    resp,       \* the response of the last request served
    audit,      \* per event_id: role of the creating token, role of the token
                \* whose request last wrote the visibility column
    workers,    \* per worker: the request it is serving between two statements
    rsvps,      \* the rows of the rsvps table
    reviews,    \* the rows of the event_reviews table
    now,        \* the store's clock (CURRENT_TIMESTAMP)
    updated_at, \* per event_id: the updated_at an UPDATE statement of
                \* update_event gave the row, NULL when none has written it
    tasks,      \* the rows of the planning_tasks table
    nextTask,   \* the next value of the task_id serial
    creating    \* per worker: the create_task request it is serving

vars == <<events, nextId, resp, audit, workers, rsvps, reviews, now, updated_at, users,
          tasks, nextTask, creating>>

\* The planning board and the requests that create its tasks.
board == <<tasks, nextTask, creating>>

\* The tables and the clock of the participation and review handlers.
ledger == <<rsvps, reviews, now>>

NoRole == [created |-> "none", vis |-> "none"]
Idle == [pc |-> "idle", op |-> "none", cred |-> NoCredential, event_id |-> NULL,
         data |-> EmptyBody, code |-> 0]
Workers == 1..MaxWorkers

\* A worker that serves no create_task request, and one that has answered.
NoTask == [pc |-> "idle", code |-> 0, max_pos |-> 0, task_id |-> NULL]
Answered(code, task_id) == [pc |-> "done", code |-> code, max_pos |-> 0, task_id |-> task_id]

Init ==
    /\ events = {}
    /\ nextId = 1
    /\ resp = [op |-> "none", code |-> 0, sub |-> NULL, rows |-> <<>>, status |-> "null",
               agg |-> <<>>]
    /\ audit = [i \in EventIds |-> NoRole]
    /\ workers = [w \in Workers |-> Idle]
    /\ rsvps = {}
    /\ reviews = {}
    /\ now = 1
    /\ updated_at = [i \in EventIds |-> NULL]
    /\ tasks = {}
    /\ nextTask = 1
    /\ creating = [w \in Workers |-> NoTask]
    /\ users = [i \in 1..3 |-> (CHOOSE cred \in {Attendee, Organizer, Admin} : cred.sub = i).role]

\* The updated_at column once a statement that wrote the rows of `written` at
\* time ts has left the rows evs.
Stamp(evs, written, ts) ==
    [i \in EventIds |->
        IF RowsById(evs, i) = {} THEN NULL
        ELSE IF i \in written THEN ts
        ELSE updated_at[i]]

Response(op, code) ==
    [op |-> op, code |-> code, sub |-> NULL, rows |-> <<>>, status |-> "null", agg |-> <<>>]

\* ------------------------------------------- requests served one at a time
\* POST /events/ (the serial is capped at MaxEvents rows ever created)
CreateEvent(cred, data) ==
    /\ nextId <= MaxEvents
    /\ LET r == create_event(events, nextId, cred, data)
       IN  /\ events' = r.events
           /\ nextId' = r.nextId
           /\ resp' = Response("create", r.code)
           /\ audit' = IF r.code = 201
                       THEN [audit EXCEPT ![nextId] = [created |-> cred.role, vis |-> cred.role]]
                       ELSE audit
           /\ updated_at' = Stamp(r.events, {}, now)
    /\ UNCHANGED <<users, board, workers, ledger>>

\* PUT /events/<event_id>
UpdateEvent(cred, event_id, data) ==
    /\ LET r == update_event(events, cred, event_id, data)
       IN  /\ events' = r.events
           /\ resp' = Response("update", r.code)
           /\ audit' = IF r.code = 200 /\ Has(data, "visibility")
                       THEN [audit EXCEPT ![event_id].vis = cred.role]
                       ELSE audit
           /\ updated_at' = Stamp(r.events, IF r.code = 200 THEN {event_id} ELSE {}, now)
    /\ UNCHANGED <<users, board, nextId, workers, ledger>>

\* DELETE /events/<event_id>
DeleteEvent(cred, event_id) ==
    /\ LET r == delete_event(events, cred, event_id)
       IN  /\ events' = r.events
           /\ resp' = Response("delete", r.code)
           /\ rsvps' = IF r.code = 200 THEN Cascade(rsvps, event_id) ELSE rsvps
           /\ reviews' = IF r.code = 200 THEN Cascade(reviews, event_id) ELSE reviews
           /\ updated_at' = Stamp(r.events, {}, now)
    /\ UNCHANGED <<users, board, nextId, audit, workers, now>>

\* GET /events/
ListEvents(cred) ==
    /\ \E rows \in list_events(events, cred) :
          resp' = [op |-> "list", code |-> 200, sub |-> verify_token(cred), rows |-> rows,
                   status |-> "null",
                   agg |-> [i \in DOMAIN rows |-> Aggregates(rsvps, reviews, rows[i])]]
    /\ UNCHANGED <<users, board, events, updated_at, nextId, audit, workers, ledger>>

\* GET /events/<event_id>
GetEvent(cred, event_id) ==
    /\ LET code == get_event(events, cred, event_id)
       IN  resp' = IF code # 200 THEN Response("get", code)
                   ELSE [Response("get", code) EXCEPT
                            !.rows = <<event_id>>,
                            !.agg = <<Aggregates(rsvps, reviews, event_id)>>]
    /\ UNCHANGED <<users, board, events, updated_at, nextId, audit, workers, ledger>>

\* POST /events/<event_id>/rsvp
Rsvp(cred, event_id, data) ==
    /\ LET r == rsvp(rsvps, events, cred, event_id, data)
       IN  /\ rsvps' = r.rsvps
           /\ resp' = [Response("rsvp", r.code) EXCEPT !.status = r.status]
    /\ UNCHANGED <<users, board, events, updated_at, nextId, audit, workers, reviews, now>>

\* The times CURRENT_TIMESTAMP may show to the next statement.
Ticks == {ts \in {now, now + 1} : ts <= MaxClock}

\* POST /events/<event_id>/review, served when the store's clock shows ts
PostEventReview(cred, event_id, data, ts) ==
    /\ ts \in Ticks
    /\ LET r == post_event_review(reviews, events, cred, event_id, data, ts)
       IN  /\ reviews' = r.reviews
           /\ resp' = Response("review", r.code)
    /\ now' = ts
    /\ UNCHANGED <<users, board, events, updated_at, nextId, audit, workers, rsvps>>

\* GET /events/<event_id>/reviews
GetEventReviews(event_id) ==
    /\ \E rows \in get_event_reviews(reviews, event_id) :
          resp' = [Response("reviews", 200) EXCEPT !.rows = rows]
    /\ UNCHANGED <<users, board, events, updated_at, nextId, audit, workers, ledger>>

\* ------------------------------------- requests served by concurrent workers
\* A worker is free when it serves no request (it keeps its last response).
Free(w) == workers[w].pc \in {"idle", "done"}

Done(op, cred, event_id, data, code) ==
    [pc |-> "done", op |-> op, cred |-> cred, event_id |-> event_id, data |-> data,
     code |-> code]

Inserting == {w \in Workers : workers[w].pc = "insert"}

\* create_event, first transaction: validation and the conflict query.
CreateCheck(w, cred, data) ==
    /\ Free(w)
    /\ nextId + Cardinality(Inserting) <= MaxEvents
    /\ LET c == CreateCheckCode(events, cred, data)
       IN  workers' = [workers EXCEPT ![w] =
               IF c # 0 THEN Done("create", cred, NULL, data, c)
               ELSE [pc |-> "insert", op |-> "create", cred |-> cred, event_id |-> NULL,
                     data |-> data, code |-> 0]]
    /\ UNCHANGED <<users, board, events, updated_at, nextId, resp, audit, ledger>>

\* create_event, second transaction: the INSERT and its commit.
CreateInsert(w) ==
    /\ workers[w].pc = "insert"
    /\ LET r == workers[w]
       IN  /\ events' = events \cup {NewRow(nextId, verify_token_from_request(r.cred), r.data)}
           /\ audit' = [audit EXCEPT ![nextId] = [created |-> r.cred.role, vis |-> r.cred.role]]
           /\ workers' = [workers EXCEPT ![w] = Done("create", r.cred, nextId, r.data, 201)]
    /\ nextId' = nextId + 1
    /\ UNCHANGED <<users, board, resp, ledger, updated_at>>

\* update_event, the SELECT of the row and the checks made on it.
UpdateRead(w, cred, event_id, data) ==
    /\ Free(w)
    /\ LET c == UpdateReadCode(events, cred, event_id, data)
       IN  workers' = [workers EXCEPT ![w] =
               IF c # 0 THEN Done("update", cred, event_id, data, c)
               ELSE [pc |-> "write", op |-> "update", cred |-> cred, event_id |-> event_id,
                     data |-> data, code |-> 0]]
    /\ UNCHANGED <<users, board, events, updated_at, nextId, resp, audit, ledger>>

\* update_event, the UPDATE statement and its commit.
UpdateWrite(w) ==
    /\ workers[w].pc = "write"
    /\ LET r == workers[w]
       IN  /\ events' = ApplyUpdate(events, r.event_id, r.data)
           /\ audit' = IF Has(r.data, "visibility") /\ RowsById(events, r.event_id) # {}
                       THEN [audit EXCEPT ![r.event_id].vis = r.cred.role]
                       ELSE audit
           /\ workers' = [workers EXCEPT ![w] = Done("update", r.cred, r.event_id, r.data, 200)]
           /\ updated_at' = Stamp(events, {r.event_id}, now)
    /\ UNCHANGED <<users, board, nextId, resp, ledger>>

\* A worker between the checks of a handler and its statement.
Pending(pc, op, cred, event_id, data) ==
    [pc |-> pc, op |-> op, cred |-> cred, event_id |-> event_id, data |-> data, code |-> 0]

\* delete_event, the SELECT of the row and the checks made on it.
DeleteRead(w, cred, event_id) ==
    /\ Free(w)
    /\ LET c == delete_event(events, cred, event_id).code
       IN  workers' = [workers EXCEPT ![w] =
               IF c # 200 THEN Done("delete", cred, event_id, EmptyBody, c)
               ELSE Pending("delete", "delete", cred, event_id, EmptyBody)]
    /\ UNCHANGED <<users, board, events, updated_at, nextId, resp, audit, ledger>>

\* Faulty variant of DeleteCode: the rowcount is not looked at.
DeleteCodeIgnored(rowcount) == 200

\* delete_event, the response after the DELETE: 404 when it removed no row.
DeleteCode(rowcount) == IF rowcount = 0 THEN 404 ELSE 200

\* delete_event, the DELETE statement, its commit and the rowcount test.
DeleteWrite(w) ==
    /\ workers[w].pc = "delete"
    /\ LET r == workers[w]
           rowcount == Cardinality(RowsById(events, r.event_id))
       IN  /\ events' = events \ RowsById(events, r.event_id)
           /\ rsvps' = Cascade(rsvps, r.event_id)
           /\ reviews' = Cascade(reviews, r.event_id)
           /\ workers' = [workers EXCEPT ![w] =
                  Done("delete", r.cred, r.event_id, r.data, DeleteCode(rowcount))]
           /\ updated_at' = Stamp(events \ RowsById(events, r.event_id), {}, now)
    /\ UNCHANGED <<users, board, nextId, resp, audit, now>>

\* rsvp, the token check and the status check.
RsvpPrepare(w, cred, event_id, data) ==
    /\ Free(w)
    /\ LET c == RsvpCheckCode(cred, data)
       IN  workers' = [workers EXCEPT ![w] =
               IF c # 0 THEN Done("rsvp", cred, event_id, data, c)
               ELSE Pending("rsvp", "rsvp", cred, event_id, data)]
    /\ UNCHANGED <<users, board, events, updated_at, nextId, resp, audit, ledger>>

\* rsvp, the statement and its commit.
RsvpExecute(w) ==
    /\ workers[w].pc = "rsvp"
    /\ LET r == workers[w]
           x == RsvpStatement(rsvps, events, r.cred.sub, r.event_id, Get(r.data, "status"))
       IN  /\ rsvps' = x.rsvps
           /\ workers' = [workers EXCEPT ![w] = Done("rsvp", r.cred, r.event_id, r.data, x.code)]
    /\ UNCHANGED <<users, board, events, updated_at, nextId, resp, audit, reviews, now>>

\* post_event_review, the token check and the rating check.
ReviewPrepare(w, cred, event_id, data) ==
    /\ Free(w)
    /\ LET c == ReviewCheckCode(cred, data)
       IN  workers' = [workers EXCEPT ![w] =
               IF c # 0 THEN Done("review", cred, event_id, data, c)
               ELSE Pending("review", "review", cred, event_id, data)]
    /\ UNCHANGED <<users, board, events, updated_at, nextId, resp, audit, ledger>>

\* post_event_review, the statement and its commit when the clock shows ts.
ReviewExecute(w, ts) ==
    /\ workers[w].pc = "review"
    /\ ts \in Ticks
    /\ LET r == workers[w]
           x == ReviewStatement(reviews, events, r.cred.sub, r.event_id, r.data, ts)
       IN  /\ reviews' = x.reviews
           /\ workers' = [workers EXCEPT ![w] = Done("review", r.cred, r.event_id, r.data, x.code)]
    /\ now' = ts
    /\ UNCHANGED <<users, board, events, updated_at, nextId, resp, audit, rsvps>>

\* ------------------------------------------------------- request inputs
Body(over) == [k \in DOMAIN EmptyBody |-> IF k \in DOMAIN over THEN over[k] ELSE EmptyBody[k]]

\* Bodies about time and place, as an organizer sends them.
SchedCreateBodies ==
    {Body(b) : b \in [title : {1},
                      start_time : Times \cup {BAD},
                      end_time : Times,
                      location_type : {"absent", "venue", "custom"},
                      venue_id : Venues \cup {ABSENT},
                      custom_location_address : Addresses \cup {ABSENT}]}

TimeKeys == {"start_time", "end_time"}
PlaceKeys == {"location_type", "venue_id", "custom_location_address"}

SchedValues(k) ==
    CASE k = "start_time" -> Times \cup {BAD}
      [] k = "end_time" -> Times
      [] k = "location_type" -> {"venue", "custom"}
      [] k = "venue_id" -> Venues \cup {NULL}
      [] k = "custom_location_address" -> Addresses \cup {NULL}
      [] k = "status" -> {"upcoming", "cancelled"}

\* The partial bodies that hold exactly the keys k1 and k2 (one key if equal).
Bodies(k1, k2) ==
    {Body([k \in {k1, k2} |-> IF k = k1 THEN v1 ELSE v2]) :
        v1 \in SchedValues(k1), v2 \in SchedValues(k2)}

BodiesOver(keys) == UNION {UNION {Bodies(k1, k2) : k2 \in keys} : k1 \in keys}

\* The Update bodies that supply exactly one of start_time / end_time.
OneTimeBodies == {data \in BodiesOver(TimeKeys) : NumKeys(data) = 1}

\* Partial bodies: a status, or one or two keys about time, or about place.
SchedUpdateBodies == BodiesOver({"status"}) \cup BodiesOver(TimeKeys) \cup BodiesOver(PlaceKeys)

SchedNext ==
    \/ \E data \in SchedCreateBodies : CreateEvent(Organizer, data)
    \/ \E id \in EventIds, data \in SchedUpdateBodies : UpdateEvent(Organizer, id, data)
    \/ \E id \in EventIds : DeleteEvent(Organizer, id)

SpecSched == Init /\ [][SchedNext]_vars

\* Bodies about visibility, as any caller sends them: a custom-location event
\* in the window [1, 2).
AccessCreateBodies ==
    {Body(b) : b \in [title : {1},
                      start_time : {1},
                      end_time : {2},
                      custom_location_address : Addresses,
                      visibility : {"absent", "public", "private", "bad"}]}

AccessUpdateBodies ==
    {Body(b) : b \in [visibility : {"public", "private", "bad"}]}
        \cup {Body(b) : b \in [title : {NULL, 1, TITLE_MAX_LENGTH + 1}]}

AccessNext ==
    \/ \E cred \in Credentials, data \in AccessCreateBodies : CreateEvent(cred, data)
    \/ \E cred \in Credentials, id \in EventIds, data \in AccessUpdateBodies :
          UpdateEvent(cred, id, data)
    \/ \E cred \in Credentials, id \in EventIds : DeleteEvent(cred, id)
    \/ \E cred \in Credentials : ListEvents(cred)
    \/ \E cred \in Credentials, id \in EventIds : GetEvent(cred, id)

SpecAccess == Init /\ [][AccessNext]_vars

\* Venue-bound Create bodies with a valid window.
RaceCreateBodies ==
    {Body(b) : b \in {x \in [title : {1}, start_time : Times, end_time : Times,
                             location_type : {"venue"}, venue_id : Venues] :
                         x.start_time < x.end_time}}

\* Concurrent Create requests.
RaceCreateNext ==
    \/ \E w \in Workers, data \in RaceCreateBodies : CreateCheck(w, Organizer, data)
    \/ \E w \in Workers : CreateInsert(w)

SpecRaceCreate == Init /\ [][RaceCreateNext]_vars

\* A custom-location Create body for the longest window.
LongCreateBodies ==
    {Body([title |-> 1, start_time |-> 1, end_time |-> MaxTime,
           custom_location_address |-> a]) : a \in Addresses}

\* Concurrent Update requests that each supply one of start_time / end_time.
RaceUpdateNext ==
    \/ \E w \in Workers, data \in LongCreateBodies : CreateCheck(w, Organizer, data)
    \/ \E w \in Workers : CreateInsert(w)
    \/ \E w \in Workers, id \in EventIds, data \in OneTimeBodies :
          UpdateRead(w, Organizer, id, data)
    \/ \E w \in Workers : UpdateWrite(w)

SpecRaceUpdate == Init /\ [][RaceUpdateNext]_vars

\* A private custom-location Create body, as any subject may send it.
LedgerCreateBodies ==
    {Body([title |-> 1, start_time |-> 1, end_time |-> 2, custom_location_address |-> a,
           visibility |-> "private"]) : a \in Addresses}

\* Update bodies that cancel or complete an event.
LedgerUpdateBodies == {Body([status |-> "cancelled"]), Body([status |-> "completed"])}

\* Update bodies that cancel an event or bind it to a venue.
FrameUpdateBodies == {Body([status |-> "cancelled"])} \cup {Body([venue_id |-> v]) : v \in Venues}

\* Bodies of POST /events/<id>/rsvp: a status, a value that is none, no key.
RsvpBodies == {Body([status |-> st]) : st \in {"going", "maybe", "bad", ""}} \cup {EmptyBody}

\* Bodies of POST /events/<id>/review: a rating in or out of range, or none.
ReviewBodies == {Body([rating |-> g]) : g \in {5, 6}} \cup {EmptyBody}

\* The callers of the participation handlers.
LedgerCallers == {NoCredential, Attendee, Organizer}

\* Events, RSVPs and reviews, requests served one at a time.
LedgerNext ==
    \/ \E data \in LedgerCreateBodies : CreateEvent(Organizer, data)
    \/ \E id \in EventIds, data \in LedgerUpdateBodies : UpdateEvent(Organizer, id, data)
    \/ \E id \in EventIds : DeleteEvent(Organizer, id)
    \/ \E cred \in LedgerCallers, id \in EventIds, data \in RsvpBodies : Rsvp(cred, id, data)
    \/ \E id \in EventIds, data \in ReviewBodies : PostEventReview(Attendee, id, data, now)

SpecLedger == Init /\ [][LedgerNext]_vars

\* Updates of events that have RSVPs and reviews.
FrameNext ==
    \/ \E data \in LedgerCreateBodies : CreateEvent(Organizer, data)
    \/ \E id \in EventIds, data \in FrameUpdateBodies : UpdateEvent(Organizer, id, data)
    \/ \E id \in EventIds : Rsvp(Attendee, id, Body([status |-> "going"]))
    \/ \E id \in EventIds : PostEventReview(Attendee, id, Body([rating |-> 5]), now)

SpecFrame == Init /\ [][FrameNext]_vars

\* Bodies of POST /events/<id>/review with and without a text.
RatedBodies ==
    {Body(b) : b \in [rating : {1, 5}] \cup [rating : {1, 5, 6}, review_text : {1}]}

\* The callers who review.
Reviewers == {Attendee, Organizer}

\* Reviews written and listed, requests served one at a time: each statement
\* reads a later CURRENT_TIMESTAMP than the one before it.
ReviewNext ==
    \/ \E data \in LedgerCreateBodies : CreateEvent(Organizer, data)
    \/ \E cred \in Reviewers, id \in EventIds, data \in RatedBodies :
          PostEventReview(cred, id, data, now + 1)
    \/ \E id \in EventIds : GetEventReviews(id)

SpecReview == Init /\ [][ReviewNext]_vars

\* Bodies of POST /events/<id>/rsvp that count and that do not.
CountedBodies == {Body([status |-> st]) : st \in {"going", "maybe"}}

\* Bodies of POST /events/<id>/review with a low and a high rating.
LowHighBodies == {Body([rating |-> g]) : g \in {1, 5}}

\* Event reads with their aggregates over the RSVPs and reviews of two callers.
AggregateNext ==
    \/ \E data \in LedgerCreateBodies : CreateEvent(Organizer, data)
    \/ \E cred \in Reviewers, id \in EventIds, data \in CountedBodies : Rsvp(cred, id, data)
    \/ \E cred \in Reviewers, id \in EventIds, data \in LowHighBodies :
          PostEventReview(cred, id, data, now)
    \/ \E id \in EventIds : GetEvent(Organizer, id)
    \/ ListEvents(Organizer)

SpecAggregate == Init /\ [][AggregateNext]_vars

\* Public Create bodies for venue 1 in the window [1, 2), with and without title.
FailCreateBodies ==
    {Body([title |-> t, start_time |-> 1, end_time |-> 2, location_type |-> "venue",
           venue_id |-> 1]) : t \in {NULL, 1}}

\* Update bodies that cancel an event or carry an empty title.
FailUpdateBodies == {Body([status |-> "cancelled"]), Body([title |-> NULL])}

\* Requests of every mutating handler, those that are refused included.
FailureNext ==
    \/ \E cred \in Reviewers, data \in FailCreateBodies : CreateEvent(cred, data)
    \/ \E cred \in Reviewers, id \in EventIds, data \in FailUpdateBodies :
          UpdateEvent(cred, id, data)
    \/ \E cred \in Reviewers, id \in EventIds : DeleteEvent(cred, id)
    \/ \E cred \in Reviewers, id \in EventIds, st \in {"going", "bad"} :
          Rsvp(cred, id, Body([status |-> st]))
    \/ \E id \in EventIds, data \in ReviewBodies : PostEventReview(Attendee, id, data, now)

SpecFailure == Init /\ [][FailureNext]_vars

\* Tokens that do not verify: a forged one with admin claims, an expired one.
ForgedToken == [signed |-> FALSE, expired |-> FALSE, sub |-> 3, role |-> "admin"]
ExpiredToken == [signed |-> TRUE, expired |-> TRUE, sub |-> 2, role |-> "organizer"]

\* The headers requests come with.
BadHeaders == {MissingHeader, BasicHeader, Bearer(ForgedToken), Bearer(ExpiredToken)}
GoodHeaders == {Bearer(create_token(c.sub, c.role)) : c \in Reviewers}
Headers == BadHeaders \cup GoodHeaders

\* Requests of every mutating handler with every kind of header.
AuthNext ==
    \/ \E h \in Headers, data \in LedgerCreateBodies : CreateEvent(Decode(h), data)
    \/ \E h \in Headers, id \in EventIds :
          UpdateEvent(Decode(h), id, Body([status |-> "cancelled"]))
    \/ \E h \in Headers, id \in EventIds : DeleteEvent(Decode(h), id)
    \/ \E h \in Headers, id \in EventIds : Rsvp(Decode(h), id, Body([status |-> "going"]))
    \/ \E h \in Headers, id \in EventIds :
          PostEventReview(Decode(h), id, Body([rating |-> 5]), now)

SpecAuth == Init /\ [][AuthNext]_vars

\* The callers of the owner requests.
Owners == {Attendee, Organizer, Admin}

\* POST /auth/set-role: code and the users table it leaves.
set_role(us, cred, target_id, new_role) ==
    LET auth == verify_token_from_request_roles(cred, {"admin"})
    IN  IF auth.code # 0 THEN [code |-> auth.code, users |-> us]
        ELSE IF target_id = NULL \/ new_role \notin {"attendee", "organizer", "admin"}
        THEN [code |-> 400, users |-> us]
        ELSE [code |-> 200,
              users |-> [i \in DOMAIN us |-> IF i = target_id THEN new_role ELSE us[i]]]

SetRole(cred, target_id, new_role) ==
    /\ LET r == set_role(users, cred, target_id, new_role)
       IN  /\ users' = r.users
           /\ resp' = Response("set_role", r.code)
    /\ UNCHANGED <<board, events, updated_at, nextId, audit, workers, rsvps, reviews, now>>

\* Create bodies for a private and a public event.
RoleCreateBodies ==
    {Body([title |-> 1, start_time |-> 1, end_time |-> 2, custom_location_address |-> 1,
           visibility |-> v]) : v \in {"private", "public"}}

\* Events requests made with tokens issued before the roles of the attendee
\* and the organizer are changed.
RoleNext ==
    \/ \E cred \in {Attendee, Admin}, target_id \in 0..2,
          new_role \in {"attendee", "organizer", "admin", "bad"} :
          SetRole(cred, target_id, new_role)
    \/ \E cred \in Owners, data \in RoleCreateBodies : CreateEvent(cred, data)
    \/ \E cred \in Owners, id \in EventIds :
          UpdateEvent(cred, id, Body([visibility |-> "public"]))
    \/ \E cred \in Owners, id \in EventIds : DeleteEvent(cred, id)
    \/ \E cred \in Owners, id \in EventIds : GetEvent(cred, id)

SpecRole == Init /\ [][RoleNext]_vars

\* create_task before its transaction: 0 when the task is to be stored, the
\* response code otherwise.
TaskCheckCode(cred, data) ==
    LET auth == verify_token_from_request(cred)
    IN  IF auth.code # 0 THEN auth.code
        ELSE IF auth.role \notin {"admin", "organizer"} THEN 403
        ELSE IF Get(data, "title") = NULL THEN 400
        ELSE 0

\* SELECT COALESCE(MAX(position), 0) FROM planning_tasks
max_pos(ts) ==
    IF ts = {} THEN 0
    ELSE LET positions == {t.position : t \in ts}
         IN  CHOOSE m \in positions : \A n \in positions : n <= m

\* The position create_task gives the new task.
new_pos(max) == max + 1000

\* create_task: the checks and the SELECT of the current maximum.
TaskSelect(w, cred, data) ==
    /\ creating[w].pc \in {"idle", "done"}
    /\ LET c == TaskCheckCode(cred, data)
       IN  creating' = [creating EXCEPT ![w] =
               IF c # 0 THEN Answered(c, NULL)
               ELSE [pc |-> "insert", code |-> 0, max_pos |-> max_pos(tasks), task_id |-> NULL]]
    /\ UNCHANGED <<events, updated_at, nextId, resp, audit, workers, rsvps, reviews, now,
                   users, tasks, nextTask>>

\* create_task: the INSERT with the position computed from the maximum read,
\* and the commit (the serial is capped at MaxTasks rows ever created).
TaskInsert(w) ==
    /\ creating[w].pc = "insert"
    /\ nextTask <= MaxTasks
    /\ tasks' = tasks \cup {[task_id |-> nextTask, position |-> new_pos(creating[w].max_pos)]}
    /\ nextTask' = nextTask + 1
    /\ creating' = [creating EXCEPT ![w] = Answered(201, nextTask)]
    /\ UNCHANGED <<events, updated_at, nextId, resp, audit, workers, rsvps, reviews, now, users>>

\* create_task requests served by concurrent workers.
TaskNext ==
    \/ \E w \in Workers, cred \in {NoCredential, Attendee, Organizer, Admin},
          data \in {Body([title |-> 1]), EmptyBody} : TaskSelect(w, cred, data)
    \/ \E w \in Workers : TaskInsert(w)

SpecTask == Init /\ [][TaskNext]_vars

\* Time passes between two requests.
Tick ==
    /\ now < MaxClock
    /\ now' = now + 1
    /\ UNCHANGED <<users, board, events, updated_at, nextId, resp, audit, workers, rsvps, reviews>>

\* Update bodies that name organizer_id or created_by, alone or with columns
\* update_event writes.
OwnerUpdateBodies ==
    {Body([organizer_id |-> 1]),
     Body([created_by |-> 3]),
     Body([organizer_id |-> 1, created_by |-> 1, status |-> "cancelled"]),
     Body([title |-> 2, organizer_id |-> 3, created_by |-> 3])}

\* Events created, updated with bodies that name their owner columns, and
\* deleted, by callers of every role.
OwnerNext ==
    \/ \E cred \in Owners, data \in LedgerCreateBodies : CreateEvent(cred, data)
    \/ \E cred \in Owners, id \in EventIds, data \in OwnerUpdateBodies :
          UpdateEvent(cred, id, data)
    \/ \E cred \in Owners, id \in EventIds : DeleteEvent(cred, id)

SpecOwner == Init /\ [][OwnerNext]_vars

\* Update bodies with and without a column update_event writes.
TouchBodies ==
    {Body([organizer_id |-> 1]), Body([rating |-> 5]), Body([status |-> "cancelled"])}

\* Events of the organizer, updated and deleted as time passes.
TouchNext ==
    \/ \E data \in LedgerCreateBodies : CreateEvent(Organizer, data)
    \/ \E id \in EventIds, data \in TouchBodies : UpdateEvent(Organizer, id, data)
    \/ \E id \in EventIds : DeleteEvent(Organizer, id)
    \/ Tick

SpecTouch == Init /\ [][TouchNext]_vars

\* The callers allowed to delete the organizer's events.
Deleters == {Organizer, Admin}

\* Concurrent Update and Delete requests for the organizer's events.
RaceDeleteNext ==
    \/ \E data \in LedgerCreateBodies : CreateEvent(Organizer, data)
    \/ \E w \in Workers, id \in EventIds :
          UpdateRead(w, Organizer, id, Body([status |-> "cancelled"]))
    \/ \E w \in Workers : UpdateWrite(w)
    \/ \E w \in Workers, cred \in Deleters, id \in EventIds : DeleteRead(w, cred, id)
    \/ \E w \in Workers : DeleteWrite(w)

SpecRaceDelete == Init /\ [][RaceDeleteNext]_vars

\* Events, RSVPs and reviews, requests served by concurrent workers.
RaceLedgerNext ==
    \/ \E w \in Workers, data \in LedgerCreateBodies : CreateCheck(w, Organizer, data)
    \/ \E w \in Workers : CreateInsert(w)
    \/ \E w \in Workers, id \in EventIds : DeleteRead(w, Organizer, id)
    \/ \E w \in Workers : DeleteWrite(w)
    \/ \E w \in Workers, id \in EventIds, data \in RsvpBodies : RsvpPrepare(w, Attendee, id, data)
    \/ \E w \in Workers : RsvpExecute(w)
    \/ \E w \in Workers, id \in EventIds, data \in ReviewBodies :
          ReviewPrepare(w, Attendee, id, data)
    \/ \E w \in Workers : ReviewExecute(w, now)

SpecRaceLedger == Init /\ [][RaceLedgerNext]_vars

\* ================================================================ claims
\* The interval test of the specification: [s1, e1) and [s2, e2) conflict.
Conflict(s1, e1, s2, e2) == s1 < e2 /\ s2 < e1

VenueBound(e) == e.location_type = "venue"

\* C1: no two distinct upcoming venue-bound events at the same venue have
\* overlapping [start, end) windows, after any sequence of Create, Update and
\* Delete calls served one at a time.
C1_NoVenueOverlap ==
    \A e1, e2 \in events :
        /\ e1.event_id # e2.event_id
        /\ VenueBound(e1) /\ VenueBound(e2)
        /\ e1.status = "upcoming" /\ e2.status = "upcoming"
        /\ e1.venue_id = e2.venue_id
        => ~Conflict(e1.start_time, e1.end_time, e2.start_time, e2.end_time)

\* The venue-bound Create requests that pass validation and the permission check.
VenueCreates ==
    {data \in SchedCreateBodies :
        /\ CreateValidate(verify_token_from_request(Organizer), data) = 0
        /\ GetOr(data, "location_type", "custom") = "venue"}

\* The stored upcoming events at the venue of `data` whose window conflicts with it.
Blocking(data) ==
    {e \in events : /\ e.venue_id = data.venue_id
                    /\ e.status = "upcoming"
                    /\ Conflict(data.start_time, data.end_time, e.start_time, e.end_time)}

\* C3: a validated, permitted venue-bound Create is answered 409 exactly when
\* a stored upcoming event at the same venue has a window [s2, e2) with
\* s < e2 and s2 < e; a rejected Create leaves the stored events unchanged.
C3_ConflictIff ==
    \A data \in VenueCreates :
        LET r == create_event(events, nextId, Organizer, data)
        IN  /\ r.code = 409 <=> Blocking(data) # {}
            /\ r.code # 409 => r.code = 201
            /\ r.code = 409 => r.events = events /\ r.nextId = nextId

\* C3 witness: a Create was answered 409 while an upcoming event held the
\* venue, and the same store accepts the window that starts where it ends.
C3_Witness ==
    /\ resp.op = "create" /\ resp.code = 409
    /\ \E e \in events, data \in VenueCreates :
          /\ e.status = "upcoming" /\ e.venue_id = data.venue_id
          /\ data.start_time = e.end_time
          /\ create_event(events, nextId, Organizer, data).code = 201

\* C4: a venue-bound Create is never answered 409 on account of an event whose
\* location mode is custom: whenever it is answered 409, some venue-bound
\* upcoming event at that venue conflicts with it.
C4_CustomNeverBlocks ==
    \A data \in VenueCreates :
        create_event(events, nextId, Organizer, data).code = 409
            => \E e \in Blocking(data) : VenueBound(e)

\* C6: every stored event has exactly one of venue_id and
\* custom_location_address non-null, the one its location_type names.
C6_OneLocation ==
    \A e \in events :
        /\ (e.venue_id # NULL) # (e.custom_location_address # NULL)
        /\ (e.venue_id # NULL) <=> VenueBound(e)

\* The window an event has once `data` is merged into it.
MergedStart(e, data) == IF Has(data, "start_time") THEN data.start_time ELSE e.start_time
MergedEnd(e, data) == IF Has(data, "end_time") THEN data.end_time ELSE e.end_time

\* C7: with requests served one at a time every stored event has
\* start_time < end_time; a Create with start >= end is answered 400, and an
\* Update that supplies one of the two times and would leave start >= end is
\* answered 400 and changes no row.
C7_StartBeforeEnd ==
    /\ \A e \in events : e.start_time < e.end_time
    /\ \A data \in SchedCreateBodies :
          (data.start_time \in Times /\ data.start_time >= data.end_time)
              => LET r == create_event(events, nextId, Organizer, data)
                 IN  r.code = 400 /\ r.events = events
    /\ \A e \in events, data \in OneTimeBodies :
          (MergedStart(e, data) \in Times /\ MergedStart(e, data) >= MergedEnd(e, data))
              => LET r == update_event(events, Organizer, e.event_id, data)
                 IN  r.code = 400 /\ r.events = events

\* C7 witness: an Update was answered 400 in a store holding an event with a
\* later start than 1 (so its time was set by a request that passed), for which
\* moving only the end to the start is refused.
C7_Witness ==
    /\ resp.op = "update" /\ resp.code = 400
    /\ \E e \in events :
          /\ e.start_time > 1
          /\ update_event(events, Organizer, e.event_id,
                          Body([end_time |-> e.start_time])).code = 400

\* C9: an event starts upcoming and its status only ever moves from upcoming
\* to cancelled or from upcoming to completed.
C9_StatusMachine ==
    [][\A e \in events : \A f \in events' :
          (e.event_id = f.event_id /\ e.status # f.status)
              => (e.status = "upcoming" /\ f.status \in {"cancelled", "completed"})]_vars

\* C5: every stored public event was created by a subject whose role at
\* creation time was organizer or admin.
C5_PublicCreatedByPrivileged ==
    \A e \in events :
        e.visibility = "public" => audit[e.event_id].created \in {"organizer", "admin"}

\* C5 as amended: every stored public event got its visibility from a request
\* (its Create, or the last Update that set visibility) whose caller's role
\* was organizer or admin.
C5_PublicSetByPrivileged ==
    \A e \in events :
        e.visibility = "public" => audit[e.event_id].vis \in {"organizer", "admin"}

\* C5 witness: an event created by an attendee is public after an Update.
C5_Witness ==
    /\ resp.op = "update" /\ resp.code = 200
    /\ \E e \in events :
          /\ e.visibility = "public"
          /\ audit[e.event_id].created = "attendee"
          /\ audit[e.event_id].vis \in {"organizer", "admin"}

Range(sq) == {sq[i] : i \in DOMAIN sq}

\* The events the Visibility Filter of the specification shows to subject s
\* (NULL for an anonymous caller).
VisibleTo(s) ==
    {e.event_id : e \in {x \in events :
        \/ x.visibility = "public"
        \/ (s # NULL /\ x.organizer_id = s)
        \/ (s # NULL /\ x.created_by = s)}}

\* C10: GET /events returns exactly the stored events that are public or whose
\* organizer or creator is the caller; an anonymous caller gets exactly the
\* public ones.
C10_ListExactlyVisible ==
    /\ resp.op = "list" => (resp.code = 200 /\ Range(resp.rows) = VisibleTo(resp.sub))
    /\ \A cred \in Credentials : \A rows \in list_events(events, cred) :
          Range(rows) = VisibleTo(IF cred.valid THEN cred.sub ELSE NULL)

\* C10 witness: a listing for an identified caller that shows a private event
\* of theirs and leaves out a private event of somebody else.
C10_Witness ==
    /\ resp.op = "list" /\ resp.sub # NULL
    /\ \E e \in events :
          e.visibility = "private" /\ e.created_by = resp.sub /\ e.event_id \in Range(resp.rows)
    /\ \E e \in events :
          e.visibility = "private" /\ e.created_by # resp.sub /\ e.event_id \notin Range(resp.rows)

\* Two Create requests for overlapping windows at one venue.
Clash(d1, d2) ==
    /\ d1.venue_id = d2.venue_id
    /\ Conflict(d1.start_time, d1.end_time, d2.start_time, d2.end_time)

\* C2: of two venue-bound Create requests for the same venue with overlapping
\* windows, however their steps interleave, at most one is answered 201, and
\* the store never holds the rows of both.
C2_AtMostOneCreated ==
    \A w1, w2 \in Workers :
        (/\ w1 # w2
         /\ workers[w1].op = "create" /\ workers[w2].op = "create"
         /\ Clash(workers[w1].data, workers[w2].data))
        => ~(/\ workers[w1].code = 201 /\ workers[w2].code = 201
             /\ RowsById(events, workers[w1].event_id) # {}
             /\ RowsById(events, workers[w2].event_id) # {})

\* C8: every stored event has start_time < end_time also when Update requests
\* on one event are served concurrently, each writing only its own columns.
C8_StartBeforeEndConcurrent == \A e \in events : e.start_time < e.end_time

\* C11: GET /events/{id} answers 404 iff no event has that id, 403 iff the
\* event exists, is private and the caller (anonymous included) is neither its
\* organizer nor its creator, and 200 otherwise; it answers 200 for exactly the
\* events the list read shows to the same caller.
C11_GetEventCodes ==
    \A cred \in Credentials, id \in EventIds :
        LET code == get_event(events, cred, id)
            s == IF cred.valid THEN cred.sub ELSE NULL
            rows == {e \in events : e.event_id = id}
        IN  /\ code \in {200, 403, 404}
            /\ code = 404 <=> rows = {}
            /\ code = 403 <=> \E e \in rows :
                                /\ e.visibility = "private"
                                /\ (s = NULL \/ (e.organizer_id # s /\ e.created_by # s))
            /\ \A listed \in list_events(events, cred) :
                   code = 200 <=> id \in Range(listed)

\* A single-item read of a private event was refused while its creator can
\* read it.
C11_Witness ==
    /\ resp.op = "get" /\ resp.code = 403
    /\ \E e \in events :
          /\ e.visibility = "private"
          /\ get_event(events, Attendee, e.event_id) = 200
          /\ get_event(events, NoCredential, e.event_id) = 403

\* The Create bodies of AccessCreateBodies, and the same bodies without a title.
TitledOrNot == {[data EXCEPT !.title = t] : data \in AccessCreateBodies, t \in {NULL, 1}}

\* The callers whose token carries a role.
Subjects == {cred \in Credentials : cred.valid}

\* C12: a Create with visibility public (explicit or by default) by a subject
\* whose role is neither organizer nor admin stores no event, and is answered
\* 403 when the request is otherwise valid (an organizer sending it gets 201);
\* an otherwise valid Create with visibility private is answered 201 and stores
\* the event for a subject of any role.
C12_PublicNeedsPrivilege ==
    \A cred \in Subjects, data \in TitledOrNot :
        LET r == create_event(events, nextId, cred, data)
            valid == create_event(events, nextId, Organizer, data).code = 201
        IN  /\ data.visibility \in {"public", "absent"} /\ cred.role \notin {"organizer", "admin"}
                => /\ r.code # 201 /\ r.events = events
                   /\ valid => r.code = 403
            /\ data.visibility = "private" /\ valid
                => /\ r.code = 201
                   /\ \E e \in r.events \ events :
                         e.visibility = "private" /\ e.created_by = cred.sub

\* An attendee was refused a public event and then stored a private one.
C12_Witness ==
    /\ resp.op = "create" /\ resp.code = 201
    /\ \E e \in events : e.created_by = Attendee.sub /\ e.visibility = "private"
    /\ nextId <= MaxEvents
    /\ \E data \in AccessCreateBodies :
          /\ data.visibility = "public"
          /\ create_event(events, nextId, Attendee, data).code = 403

\* C13: a Create whose visibility is outside {public, private} is answered 400
\* and stores no event.
C13_InvalidVisibilityRejected ==
    \A cred \in Subjects, data \in AccessCreateBodies :
        data.visibility = "bad"
            => LET r == create_event(events, nextId, cred, data)
               IN  r.code = 400 /\ r.events = events

\* C14: an Update of an existing event by an identified caller is applied only
\* if the caller's role is organizer or admin or the caller is the recorded
\* creator, and one that sets visibility public only if the role is organizer
\* or admin, creator or not; otherwise the answer is 403, the store unchanged.
C14_UpdatePermission ==
    \A cred \in Subjects, e \in events, data \in AccessUpdateBodies :
        LET r == update_event(events, cred, e.event_id, data)
            byRole == cred.role \in {"organizer", "admin"}
            allowed == /\ byRole \/ e.created_by = cred.sub
                       /\ data.visibility = "public" => byRole
        IN  /\ ~allowed => r.code = 403 /\ r.events = events
            /\ allowed => r.code \in {200, 400}
            /\ r.code # 200 => r.events = events

\* An attendee was refused an Update of their own event that sets visibility
\* public, while another Update of the same event by them is applied.
C14_Witness ==
    /\ resp.op = "update" /\ resp.code = 403
    /\ \E e \in events :
          /\ e.created_by = Attendee.sub
          /\ update_event(events, Attendee, e.event_id, Body([visibility |-> "public"])).code = 403
          /\ update_event(events, Attendee, e.event_id, Body([title |-> 1])).code = 200

\* The columns of an event row.
Columns ==
    {"event_id", "title", "start_time", "end_time", "location_type", "venue_id",
     "custom_location_address", "visibility", "organizer_id", "created_by", "status"}

\* Column k is named in the request body.
Named(data, k) == k \in DOMAIN data /\ Has(data, k)

InfersMode(data) ==
    /\ ~Named(data, "location_type")
    /\ (Named(data, "venue_id") \/ Named(data, "custom_location_address"))

\* The frame of a successful Update on the events table, with the inferred mode.
UpdateFrame ==
    \A e \in events, data \in FrameUpdateBodies :
        LET r == update_event(events, Organizer, e.event_id, data)
        IN  r.code = 200 =>
              /\ Cardinality(r.events) = Cardinality(events)
              /\ \A e2 \in r.events :
                    IF e2.event_id = e.event_id
                    THEN /\ \A k \in Columns \ {"location_type"} :
                               ~Named(data, k) => e2[k] = e[k]
                         /\ ~Named(data, "location_type") /\ ~InfersMode(data)
                               => e2.location_type = e.location_type
                         /\ InfersMode(data)
                               => e2.location_type =
                                     IF Named(data, "venue_id") THEN "venue" ELSE "custom"
                    ELSE e2 \in events

C16_DeleteCodes ==
    \A cred \in Subjects, id \in EventIds :
        LET r == delete_event(events, cred, id)
            rows == {e \in events : e.event_id = id}
            allowed == \A e \in rows :
                           cred.role \in {"organizer", "admin"} \/ e.created_by = cred.sub
        IN  /\ rows = {} => r.code = 404 /\ r.events = events
            /\ rows # {} /\ ~allowed => r.code = 403 /\ r.events = events
            /\ rows # {} /\ allowed =>
                  /\ r.code = 200
                  /\ r.events = events \ rows
                  /\ \A reader \in Credentials : get_event(r.events, reader, id) = 404

\* An event was deleted and its id now reads 404, while an attendee is refused
\* the deletion of an event of someone else that is still stored.
C16_Witness ==
    /\ resp.op = "delete" /\ resp.code = 200
    /\ \E id \in EventIds :
          /\ id < nextId /\ RowsById(events, id) = {}
          /\ delete_event(events, Attendee, id).code = 404
    /\ \E e \in events :
          /\ e.created_by # Attendee.sub
          /\ delete_event(events, Attendee, e.event_id).code = 403

HasRsvp(rs, s, id, st) ==
    \E r \in rs : r.user_id = s /\ r.event_id = id /\ r.rsvp_status = st
HasReview(rv, s, id, g) ==
    \E r \in rv : r.user_id = s /\ r.event_id = id /\ r.rating = g

RsvpRows(rs, s, id) == {r \in rs : r.user_id = s /\ r.event_id = id}

\* At most one RSVP row per (subject, event).
OneRowPerPair ==
    \A r1, r2 \in rsvps : r1.user_id = r2.user_id /\ r1.event_id = r2.event_id => r1 = r2

\* SetRSVP(s, e, going) on a stored event, run twice: each call answers 200
\* with the submitted status and exactly one row (s, e, going) is left.
TwiceIsOnce ==
    \A cred \in Subjects, e \in events, st \in VALID_RSVP :
        LET data == Body([status |-> st])
            r1 == rsvp(rsvps, events, cred, e.event_id, data)
            r2 == rsvp(r1.rsvps, events, cred, e.event_id, data)
            row == [user_id |-> cred.sub, event_id |-> e.event_id, rsvp_status |-> st]
        IN  /\ r1.code = 200 /\ r1.status = st
            /\ r2.code = 200 /\ r2.status = st
            /\ RsvpRows(r2.rsvps, cred.sub, e.event_id) = {row}
            /\ r2.rsvps = r1.rsvps

\* The statement of worker w commits in this step.
Commits(w, op) == workers[w].pc = op /\ workers'[w].pc = "done"

\* When a SetRSVP call commits with 200, the pair's rows are exactly what the
\* call submitted: one row with its status, or none for a clear.
LastCommitWins ==
    \A w \in Workers :
        Commits(w, "rsvp") /\ workers'[w].code = 200 =>
            LET r == workers[w]
                st == Get(r.data, "status")
            IN  RsvpRows(rsvps', r.cred.sub, r.event_id) =
                    IF Falsy(st) THEN {}
                    ELSE {[user_id |-> r.cred.sub, event_id |-> r.event_id, rsvp_status |-> st]}

\* RSVP rows change only when a SetRSVP or a Delete statement commits.
OnlyCommitsWrite ==
    rsvps' # rsvps => \E w \in Workers : Commits(w, "rsvp") \/ Commits(w, "delete")

\* C19: under any interleaving of SetRSVP calls there is at most one RSVP row
\* per (subject, event) and it holds the status of the last call committed for
\* the pair; SetRSVP(s, e, going) on a stored event run twice, one after the
\* other or concurrently, leaves exactly one row (s, e, going), each call
\* answering 200 with the submitted status.
C19_OneRowLastStatus ==
    /\ [](OneRowPerPair /\ TwiceIsOnce)
    /\ [][LastCommitWins /\ OnlyCommitsWrite]_vars

\* Both workers have submitted going for the same event with success, and
\* the subject has exactly one row for it, with status going.
C19_Witness ==
    \E id \in EventIds :
        /\ \A w \in Workers :
              /\ workers[w].pc = "done" /\ workers[w].op = "rsvp" /\ workers[w].code = 200
              /\ workers[w].event_id = id /\ workers[w].data.status = "going"
        /\ RsvpRows(rsvps, Attendee.sub, id) =
              {[user_id |-> Attendee.sub, event_id |-> id, rsvp_status |-> "going"]}

\* Bodies of SetRSVP without a status: no key, a null, an empty string.
ClearBodies == {EmptyBody, Body([status |-> "null"]), Body([status |-> ""])}

\* C20: SetRSVP without a status (absent, null or empty) removes the caller's
\* row for the event if there is one and changes nothing otherwise, answering
\* 200 {status: cleared} either way; afterwards the list read reports no RSVP
\* status of that subject for the event, and attendee_count no longer counts
\* the removed row.
C20_ClearRsvp ==
    \A cred \in Subjects, id \in EventIds, data \in ClearBodies :
        LET r == rsvp(rsvps, events, cred, id, data)
            mine == {x \in rsvps : x.user_id = cred.sub /\ x.event_id = id}
            going == {x \in mine : x.rsvp_status = "going"}
        IN  /\ r.code = 200 /\ r.status = "cleared"
            /\ r.rsvps = rsvps \ mine
            /\ my_rsvp_status(r.rsvps, id, cred.sub) = {"null"}
            /\ attendee_count(r.rsvps, id) = attendee_count(rsvps, id) - Cardinality(going)
            /\ rsvp(r.rsvps, events, cred, id, data) = r

\* An RSVP was just cleared: the attendee has no row for an event for which
\* the organizer is still counted as going, and has a row for another event.
C20_Witness ==
    /\ resp.op = "rsvp" /\ resp.code = 200 /\ resp.status = "cleared"
    /\ \E e \in events :
          /\ my_rsvp_status(rsvps, e.event_id, Attendee.sub) = {"null"}
          /\ my_rsvp_status(rsvps, e.event_id, Organizer.sub) = {"going"}
          /\ attendee_count(rsvps, e.event_id) = 1
    /\ \E x \in rsvps : x.user_id = Attendee.sub

\* The review rows of subject s for event id.
ReviewRows(rv, s, id) == {r \in rv : r.user_id = s /\ r.event_id = id}

\* At most one review per (subject, event), none newer than the clock.
OneReviewPerPair ==
    /\ \A r1, r2 \in reviews :
          r1.user_id = r2.user_id /\ r1.event_id = r2.event_id => r1 = r2
    /\ \A r \in reviews : r.created_at <= now

\* An UpsertReview on a stored event, then ListReviews: an accepted submission
\* leaves one row of the pair with its rating and text, listed first; a
\* refused one leaves the rows as they were.
UpsertThenList ==
    \A cred \in Reviewers, e \in events, data \in RatedBodies :
        LET id == e.event_id
            r == post_event_review(reviews, events, cred, id, data, now + 1)
            mine == ReviewRows(r.reviews, cred.sub, id)
        IN  IF data.rating \in 1..5
            THEN /\ r.code = 201
                 /\ \E x \in mine :
                       /\ mine = {x}
                       /\ x.rating = data.rating
                       /\ x.review_text = Get(data, "review_text")
                       /\ \A listed \in get_event_reviews(r.reviews, id) : listed[1] = x
                 /\ r.reviews \ mine = reviews \ ReviewRows(reviews, cred.sub, id)
            ELSE r.code = 400 /\ r.reviews = reviews

\* C21: after any sequence of UpsertReview calls there is at most one review
\* per (subject, event), with the rating and text of the subject's last
\* accepted submission; ListReviews right after an UpsertReview holds that
\* review with the submitted rating and lists it first.
C21_UpsertReviewRoundTrip == OneReviewPerPair /\ UpsertThenList

\* ListReviews has just returned two reviews of an event, the first of which
\* was written after a third submission.
C21_Witness ==
    /\ resp.op = "reviews" /\ Len(resp.rows) = 2
    /\ resp.rows[1].created_at = 4
    /\ resp.rows[2].created_at = 3

\* The number of stored reviews of event id with rating g.
Rated(id, g) == Cardinality({r \in reviews : r.event_id = id /\ r.rating = g})

\* The aggregates of event id as the stored rows give them: the going RSVPs,
\* the reviews, and the mean of their ratings as sum over count.
Expected(id) ==
    LET n == Cardinality({r \in reviews : r.event_id = id})
        total == Rated(id, 1) + 2 * Rated(id, 2) + 3 * Rated(id, 3) + 4 * Rated(id, 4)
                     + 5 * Rated(id, 5)
    IN  [attendee_count |->
             Cardinality({r \in rsvps : r.event_id = id /\ r.rsvp_status = "going"}),
         avg_rating |-> IF n = 0 THEN NULL ELSE <<total, n>>,
         review_count |-> n]

\* C22: on every event read, single or list, review_count is the number of
\* review rows stored for the event, avg_rating the mean of their ratings
\* (null when there are none) and attendee_count the number of its RSVP rows
\* with status going.
C22_AggregatesMatchRows ==
    /\ resp.op = "get" /\ resp.code = 200 => resp.agg[1] = Expected(resp.rows[1])
    /\ resp.op = "list" => \A i \in DOMAIN resp.rows : resp.agg[i] = Expected(resp.rows[i])
    /\ \A id \in EventIds : Aggregates(rsvps, reviews, id) = Expected(id)

\* A single read has just returned an event with one going RSVP out of two
\* and two reviews of mean 3, while the other event has rows of its own.
C22_Witness ==
    /\ resp.op = "get" /\ resp.code = 200
    /\ resp.agg[1] = [attendee_count |-> 1, avg_rating |-> <<6, 2>>, review_count |-> 2]
    /\ Cardinality({r \in rsvps : r.event_id = resp.rows[1]}) = 2
    /\ \E r \in rsvps : r.event_id # resp.rows[1]
    /\ \E r \in reviews : r.event_id # resp.rows[1]

\* C23: a Create, Update, Delete, SetRSVP or UpsertReview call that ends with
\* a response other than 200 / 201 (400, 401, 403, 404, 409, 500) leaves the
\* event, RSVP and review rows exactly as they were before the call.
C23_FailureChangesNothing ==
    [][resp'.code \notin {200, 201}
          => events' = events /\ rsvps' = rsvps /\ reviews' = reviews]_vars

\* A Create has just been refused for a conflict while an event with an RSVP
\* and a review is stored.
C23_Witness ==
    /\ resp.op = "create" /\ resp.code = 409
    /\ rsvps # {} /\ reviews # {}
    /\ create_event(events, nextId, Organizer,
                    Body([start_time |-> 1, end_time |-> 2, location_type |-> "venue",
                          venue_id |-> 1])).code = 400

\* Every mutating handler answers 401 to a header without a valid token,
\* whatever the body and the event id, and leaves the rows as they are.
Rejects401(h) ==
    LET cred == Decode(h)
    IN  /\ \A data \in FailCreateBodies \cup {EmptyBody} :
              create_event(events, nextId, cred, data) =
                  [code |-> 401, events |-> events, nextId |-> nextId]
        /\ \A id \in EventIds, data \in FailUpdateBodies \cup {EmptyBody} :
              update_event(events, cred, id, data) = [code |-> 401, events |-> events]
        /\ \A id \in EventIds :
              delete_event(events, cred, id) = [code |-> 401, events |-> events]
        /\ \A id \in EventIds, data \in RsvpBodies :
              LET r == rsvp(rsvps, events, cred, id, data)
              IN  r.code = 401 /\ r.rsvps = rsvps
        /\ \A id \in EventIds, data \in ReviewBodies :
              post_event_review(reviews, events, cred, id, data, now) =
                  [code |-> 401, reviews |-> reviews]

\* With a required role set, a valid token whose role is outside it gets 403
\* and no identity; one whose role is inside it gets its identity.
RoleGate(h) ==
    \A roles \in (SUBSET {"attendee", "organizer", "admin"}) \ {{}} :
        LET auth == verify_token_from_request_roles(Decode(h), roles)
        IN  IF h.role \in roles
            THEN auth = [user_id |-> h.sub, role |-> h.role, code |-> 0]
            ELSE auth = [user_id |-> NULL, role |-> "none", code |-> 403]

\* C24: every mutating events operation issued with a missing header, a
\* non-Bearer header, an invalid or an expired token is answered 401 before
\* any validation or store access and changes nothing; with a required role
\* set, a token whose role is outside it gets 403 and no identity.
C24_NoTokenNoChange ==
    /\ \A h \in BadHeaders : Rejects401(h)
    /\ \A h \in GoodHeaders :
          /\ RoleGate(h)
          /\ verify_token_from_request_roles(Decode(h), {}) = verify_token_from_request(Decode(h))

\* A request has just been answered 401 while an event with an RSVP and a
\* review is stored.
C24_Witness ==
    /\ resp.code = 401 /\ resp.op = "delete"
    /\ events # {} /\ rsvps # {} /\ reviews # {}

\* The subject of the token that created event id.
Creator(id) == CHOOSE sub \in 1..3 : \E cred \in Owners :
                   cred.sub = sub /\ cred.role = audit[id].created

\* C25: every successful Create adds exactly one event, with organizer =
\* creator = the calling subject and status upcoming, and every stored event
\* still has the subject that created it as organizer and creator, whatever
\* Updates and other operations were served since.
C25_OwnerFixed ==
    /\ \A cred \in Owners, data \in LedgerCreateBodies \cup FailCreateBodies :
          LET r == create_event(events, nextId, cred, data)
          IN  r.code = 201 =>
                  \E e \in r.events :
                      /\ e \notin events
                      /\ r.events = events \cup {e}
                      /\ e.organizer_id = cred.sub
                      /\ e.created_by = cred.sub
                      /\ e.status = "upcoming"
    /\ \A e \in events :
          e.organizer_id = Creator(e.event_id) /\ e.created_by = Creator(e.event_id)

\* An Update whose body names another organizer_id and created_by has just
\* succeeded on an event the organizer created.
C25_Witness ==
    /\ resp.op = "update" /\ resp.code = 200
    /\ \E e \in events :
          e.title = 2 /\ audit[e.event_id].created = "organizer" /\ e.status = "upcoming"

\* Non-empty update bodies that name no column update_event writes.
UnnamedBodies == {data \in TouchBodies : Fields(data) \subseteq {"updated_at"}}

\* C27: an Update whose non-empty body names none of the updatable fields,
\* sent for a stored event by a caller allowed to update it, is answered 400
\* and leaves the row and its updated_at as they are.
C27_NoValidFields400 ==
    \A cred \in Owners, e \in events, data \in UnnamedBodies :
        (Privileged(cred.role) \/ e.created_by = cred.sub) =>
            LET r == update_event(events, cred, e.event_id, data)
            IN  /\ r.code = 400
                /\ r.events = events
                /\ Stamp(r.events, IF r.code = 200 THEN {e.event_id} ELSE {}, now) = updated_at

\* Worker w ends its request with this step.
Answers(w, op) == workers[w].pc # "done" /\ workers'[w].pc = "done" /\ workers'[w].op = op

\* C26: an Update that answers 200 has written a row that exists when its
\* UPDATE statement runs: if a concurrent Delete removed the event after the
\* Update read it, the Update does not report success.
C26_UpdatedRowExists ==
    [][\A w \in Workers :
          (Answers(w, "update") /\ workers'[w].code = 200)
              => RowsById(events, workers[w].event_id) # {}]_vars

\* C28: of the Delete requests for one event, served concurrently, a DELETE
\* statement answers 200 exactly when it removes the row and 404 when the row
\* is gone, a request refused before its statement never answers 200, and no
\* two workers hold a 200 for the same event.
C28_OneDeleteSucceeds ==
    /\ [](\A w1, w2 \in Workers :
            (/\ w1 # w2
             /\ workers[w1].pc = "done" /\ workers[w1].op = "delete"
             /\ workers[w2].pc = "done" /\ workers[w2].op = "delete"
             /\ workers[w1].event_id = workers[w2].event_id)
                => ~(workers[w1].code = 200 /\ workers[w2].code = 200))
    /\ [][\A w \in Workers :
            Answers(w, "delete") =>
                LET rows == RowsById(events, workers'[w].event_id)
                IN  IF workers[w].pc = "delete" /\ rows # {}
                    THEN workers'[w].code = 200 /\ events' = events \ rows
                    ELSE workers'[w].code \in {401, 403, 404} /\ events' = events]_vars

\* Two workers have answered Deletes of one event, the organizer's with 200
\* and the admin's with 404.
C28_Witness ==
    \E w1, w2 \in Workers :
        /\ workers[w1] = Done("delete", Organizer, 1, EmptyBody, 200)
        /\ workers[w2] = Done("delete", Admin, 1, EmptyBody, 404)
        /\ nextId = 2

\* What the events service answers to the holder of cred, for every request:
\* codes and the rows the request leaves.
Outcomes(cred) ==
    <<[data \in RoleCreateBodies |-> create_event(events, nextId, cred, data)],
      [id \in EventIds |->
          <<update_event(events, cred, id, Body([visibility |-> "public"])),
            update_event(events, cred, id, Body([status |-> "cancelled"])),
            delete_event(events, cred, id),
            get_event(events, cred, id),
            rsvp(rsvps, events, cred, id, Body([status |-> "going"])),
            post_event_review(reviews, events, cred, id, Body([rating |-> 5]), now)>>],
      list_events(events, cred)>>

\* C29: what the events service decides for a token depends on the token's
\* (subject, role) and the event rows only: a step that changes the role
\* stored for a user changes the outcome of no events request made with a
\* token issued before it.
C29_StoredRoleIrrelevant ==
    [][users' # users => \A cred \in Owners : Outcomes(cred)' = Outcomes(cred)]_vars

\* The organizer, stored as attendee since an admin's set-role, has just
\* created a public event with the token issued before.
C29_Witness ==
    /\ users[2] = "attendee"
    /\ resp.op = "create" /\ resp.code = 201
    /\ \E e \in events : e.visibility = "public" /\ e.created_by = 2

\* C30: when the insert of create_task commits, the new task's position is
\* the previous maximum plus 1000 (1000 on an empty board) and is strictly
\* greater than the position of every other stored task, in every
\* interleaving of create_task requests.
C30_AppendedAtBottom ==
    [][\A t \in tasks' \ tasks :
          /\ t.position = new_pos(max_pos(tasks))
          /\ \A o \in tasks' : o.task_id # t.task_id => o.position < t.position]_vars

====
